---- MODULE Spec2Model ----
(***************************************************************************)
(* Scheduling core of the kinesiology back end (scheduling/views.py):      *)
(* booking of appointments, the status and comment transitions of an       *)
(* appointment, and the listing of a kinesiologist's free slots.           *)
(*                                                                         *)
(* Requests run on concurrent workers.  A handler is cut into steps at its *)
(* accesses to the data base: the rows it reads are the committed rows of  *)
(* that moment, and another request may commit between two of its steps.   *)
(***************************************************************************)
EXTENDS Integers, Sequences, FiniteSets, TLC

(***************************************************************************)
(* Bounds of the model.                                                    *)
(***************************************************************************)
MaxAppts == 2         \* rows the appointment table may hold
MaxClock == 2         \* readings of timezone.now() in one behaviour
MaxWindows == 2       \* rows the availability table may hold

Procs == {"w1", "w2"}                    \* request workers

(***************************************************************************)
(* Program constants.                                                      *)
(***************************************************************************)
SLOT_MINUTES == 45

HTTP_200_OK == 200
HTTP_201_CREATED == 201
HTTP_400_BAD_REQUEST == 400
HTTP_403_FORBIDDEN == 403
HTTP_404_NOT_FOUND == 404
HTTP_500_INTERNAL_SERVER_ERROR == 500

(***************************************************************************)
(* Python's None.  Texts are sequences of one-character strings, so the    *)
(* one-element sequence below is no text.                                  *)
(***************************************************************************)
None == <<"None">>

(***************************************************************************)
(* Users, kinesiologists and patients (rows of other applications).        *)
(***************************************************************************)
Users == {"admin", "kine1", "kine2", "pat1"}
Kinesiologists == {1, 2}
Patients == {1}
KineUser == <<"kine1", "kine2">>         \* Kinesiologist.user
PatientUser == <<"pat1">>                \* Patient.user
IsSuperuser(u) == u = "admin"            \* User.is_superuser

(***************************************************************************)
(* Calendar dates are <<year, month, day>>; times of day are minutes.      *)
(***************************************************************************)
Dates == {<<2024, 1, 1>>, <<2024, 1, 2>>}
ReqDates == {<<2024, 1, 1>>}                 \* dates of booking requests
ReqTimes == {0, 15, 45}                      \* times of day of booking requests
Times == {0, 45, 105}                        \* times of day of availability windows
WinDays == {0, 1}                            \* week days of availability windows

Statuses == {"requested", "confirmed", "cancelled", "completed"}

\* Submitted comments: empty, blank, a word, a word after a blank.
Texts == {<<>>, <<" ">>, <<" ", " ">>, <<"a">>, <<" ", "a">>}

VARIABLES
    appointments,   \* the Appointment table: a sequence of rows, id = index
    availability,   \* the Availability table: a sequence of rows in storage order
    proc,           \* each worker's request in progress
    resp,           \* the Response each worker returned and has not yet delivered
    clock           \* the next reading of timezone.now()

vars == <<appointments, availability, proc, resp, clock>>

(***************************************************************************)
(* Helpers.                                                                *)
(***************************************************************************)
NoReq == [op |-> "none"]
NoObj == [none |-> TRUE]
NoResp == [op |-> "none"]
IdleProc == [pc |-> "idle", req |-> NoReq, obj |-> NoObj]

Ids == 1..MaxAppts
KineIds == Kinesiologists \cup {3}       \* 3: no such kinesiologist

\* request.data.get(key): the value, or None when the key is absent.
Get(data, key) == IF key \in DOMAIN data THEN data[key] ELSE None

RECURSIVE LStrip(_)
LStrip(s) == IF s # <<>> /\ Head(s) = " " THEN LStrip(Tail(s)) ELSE s

RECURSIVE RStrip(_)
RStrip(s) ==
    IF s # <<>> /\ s[Len(s)] = " " THEN RStrip(SubSeq(s, 1, Len(s) - 1)) ELSE s

\* str.strip()
Strip(s) == RStrip(LStrip(s))

\* Two half-open intervals of one day intersect.
Overlaps(s1, e1, s2, e2) == s1 < e2 /\ s2 < e1

\* The Response a handler returns to the request req of worker p; peers are
\* the workers whose requests are in progress at that moment.
Response(p, req, code) ==
    [op |-> req.op, user |-> req.user, id |-> req.id, data |-> req.data,
     code |-> code, peers |-> {q \in Procs \ {p} : proc[q].pc # "idle"}]

\* Worker p is free to take a request: its last response is delivered.
Free(p) == proc[p].pc = "idle" /\ resp[p] = NoResp

\* Worker p returns r.
Return(p, r) ==
    /\ proc' = [proc EXCEPT ![p] = IdleProc]
    /\ resp' = [resp EXCEPT ![p] = r]

\* Worker p goes on to pc without returning.
Goto(p, pc, req, obj) ==
    /\ proc' = [proc EXCEPT ![p] = [pc |-> pc, req |-> req, obj |-> obj]]
    /\ UNCHANGED resp

\* The response of worker p reaches the client.
Deliver(p) ==
    /\ resp[p] # NoResp
    /\ resp' = [resp EXCEPT ![p] = NoResp]
    /\ UNCHANGED <<appointments, availability, proc, clock>>

InFlight(pcs) == Cardinality({q \in Procs : proc[q].pc \in pcs})

(***************************************************************************)
(* AppointmentCreateView.post                                              *)
(***************************************************************************)
\* request.data: the four fields of a booking, the same with a status the
\* client adds, or none of them.
CreateData ==
    [patient_name : Patients, date : ReqDates,
     start_time : ReqTimes, end_time : ReqTimes]
    \cup [patient_name : Patients, date : ReqDates,
          start_time : {0}, end_time : {45}, status : {"completed"}]
    \cup {[other |-> "x"]}

\* AppointmentSerializer.is_valid: the request names its patient and its
\* interval is not empty.
SerializerIsValid(data) ==
    /\ {"patient_name", "date", "start_time", "end_time"} \subseteq DOMAIN data
    /\ data.start_time < data.end_time

IsAuthorizedAnyKinesiologist(user, patient, kid) ==
    \/ IsSuperuser(user) \/ user = PatientUser[patient]
    \/ \E k \in Kinesiologists : user = KineUser[k]

\* Line 123: the caller may book: superuser, the patient or the kinesiologist.
IsAuthorized(user, patient, kid) ==
    IsSuperuser(user) \/ user = PatientUser[patient] \/ user = KineUser[kid]

\* The rows of the live table that conflict with a booking.
Conflicting(rows, kid, data) ==
    {i \in DOMAIN rows :
        /\ rows[i].kinesiologist = kid
        /\ rows[i].date = data.date
        /\ Overlaps(rows[i].start_time, rows[i].end_time,
                    data.start_time, data.end_time)}

\* The store's uniqueness constraint on (kinesiologist, date, start_time).
UniqueViolation(rows, kid, data) ==
    \E i \in DOMAIN rows :
        /\ rows[i].kinesiologist = kid
        /\ rows[i].date = data.date
        /\ rows[i].start_time = data.start_time

NewAppointmentTakesStatus(kid, data) ==
    [kinesiologist |-> kid, patient_name |-> data.patient_name,
     date |-> data.date, start_time |-> data.start_time,
     end_time |-> data.end_time,
     status |-> IF "status" \in DOMAIN data THEN data.status ELSE "requested",
     kine_comment |-> None, comment_updated_at |-> <<>>]

\* The row a booking inserts: its status is not taken from the request.
NewAppointment(kid, data) ==
    [kinesiologist |-> kid, patient_name |-> data.patient_name,
     date |-> data.date, start_time |-> data.start_time,
     end_time |-> data.end_time, status |-> "requested",
     kine_comment |-> None, comment_updated_at |-> <<>>]

\* Lines 114-131: look the kinesiologist up, validate the fields, authorize.
CreateBegin(p) ==
    /\ Free(p)
    /\ Len(appointments) + InFlight({"create_clean", "create_insert"}) < MaxAppts
    /\ \E user \in Users, kid \in KineIds, data \in CreateData :
        LET req == [op |-> "create", user |-> user, id |-> kid, data |-> data] IN
        IF kid \notin Kinesiologists
        THEN Return(p, Response(p, req, HTTP_404_NOT_FOUND))
        ELSE IF ~SerializerIsValid(data)
        THEN Return(p, Response(p, req, HTTP_400_BAD_REQUEST))
        ELSE IF ~IsAuthorized(user, data.patient_name, kid)
        THEN Return(p, Response(p, req, HTTP_403_FORBIDDEN))
        ELSE Goto(p, "create_clean", req, NoObj)
    /\ UNCHANGED <<appointments, availability, clock>>

\* Lines 133-144: inside the transaction, the booking is validated against the
\* live table; a conflict is a ValidationError.
CreateClean(p) ==
    /\ proc[p].pc = "create_clean"
    /\ LET req == proc[p].req IN
        IF Conflicting(appointments, req.id, req.data) # {}
        THEN Return(p, Response(p, req, HTTP_400_BAD_REQUEST))
        ELSE Goto(p, "create_insert", req, NoObj)
    /\ UNCHANGED <<appointments, availability, clock>>

CreateInsertSwallow(p) ==
    /\ proc[p].pc = "create_insert"
    /\ LET req == proc[p].req IN
        IF UniqueViolation(appointments, req.id, req.data)
        THEN /\ Return(p, Response(p, req, HTTP_201_CREATED))
             /\ UNCHANGED appointments
        ELSE /\ appointments' = Append(appointments, NewAppointment(req.id, req.data))
             /\ Return(p, Response(p, req, HTTP_201_CREATED))
    /\ UNCHANGED <<availability, clock>>

\* Lines 135, 145-162: the INSERT; the uniqueness constraint turns a lost race
\* into an IntegrityError.
CreateInsert(p) ==
    /\ proc[p].pc = "create_insert"
    /\ LET req == proc[p].req IN
        IF UniqueViolation(appointments, req.id, req.data)
        THEN /\ Return(p, Response(p, req, HTTP_500_INTERNAL_SERVER_ERROR))
             /\ UNCHANGED appointments
        ELSE /\ appointments' = Append(appointments, NewAppointment(req.id, req.data))
             /\ Return(p, Response(p, req, HTTP_201_CREATED))
    /\ UNCHANGED <<availability, clock>>

(***************************************************************************)
(* AppointmentStatusView.patch                                             *)
(***************************************************************************)
StatusData == [status : Statuses] \cup {[other |-> "x"]}

\* Lines 289 and 319: the caller is not the appointment's kinesiologist.
NotAssignedAdminPasses(user, appointment) ==
    user # KineUser[appointment.kinesiologist] /\ ~IsSuperuser(user)

NotAssigned(user, appointment) == user # KineUser[appointment.kinesiologist]

StatusAllowedAnyStatus(data) == "status" \in DOMAIN data

StatusAllowedCompleted(data) ==
    "status" \in DOMAIN data /\ data.status \in {"confirmed", "cancelled", "completed"}

\* Line 296: the requested status is one the view accepts.
StatusAllowed(data) ==
    "status" \in DOMAIN data /\ data.status \in {"confirmed", "cancelled"}

\* Lines 287-302: load the row, authorize, validate, assign the status.
StatusBegin(p) ==
    /\ Free(p)
    /\ \E user \in Users, aid \in Ids, data \in StatusData :
        LET req == [op |-> "status", user |-> user, id |-> aid, data |-> data] IN
        IF aid \notin DOMAIN appointments
        THEN Return(p, Response(p, req, HTTP_404_NOT_FOUND))
        ELSE IF NotAssigned(user, appointments[aid])
        THEN Return(p, Response(p, req, HTTP_403_FORBIDDEN))
        ELSE IF ~StatusAllowed(data)
        THEN Return(p, Response(p, req, HTTP_400_BAD_REQUEST))
        ELSE Goto(p, "status_save", req,
                  [appointments[aid] EXCEPT !.status = data.status])
    /\ UNCHANGED <<appointments, availability, clock>>

StatusSaveWholeRow(p) ==
    /\ proc[p].pc = "status_save"
    /\ appointments' = [appointments EXCEPT ![proc[p].req.id] = proc[p].obj]
    /\ Return(p, Response(p, proc[p].req, HTTP_200_OK))
    /\ UNCHANGED <<availability, clock>>

\* Lines 303-308: save(update_fields=["status"]).
StatusSave(p) ==
    /\ proc[p].pc = "status_save"
    /\ appointments' = [appointments EXCEPT
                          ![proc[p].req.id].status = proc[p].obj.status]
    /\ Return(p, Response(p, proc[p].req, HTTP_200_OK))
    /\ UNCHANGED <<availability, clock>>

(***************************************************************************)
(* AppointmentCommentView.patch                                            *)
(***************************************************************************)
CommentData == [kine_comment : Texts] \cup {[other |-> "x"]}

CommentBlankNoStrip(comment) == comment = None \/ comment = <<>>

CommentBlankMissingOnly(comment) == comment = None

\* Line 326: the comment is missing, empty or blank.
CommentBlank(comment) ==
    comment = None \/ comment = <<>> \/ Strip(comment) = <<>>

\* Lines 317-333: load the row, authorize, validate, assign comment and status.
CommentBegin(p) ==
    /\ Free(p)
    /\ clock + InFlight({"comment_save"}) <= MaxClock
    /\ \E user \in Users, aid \in Ids, data \in CommentData :
        LET req == [op |-> "comment", user |-> user, id |-> aid, data |-> data]
            comment == Get(data, "kine_comment")
        IN
        IF aid \notin DOMAIN appointments
        THEN Return(p, Response(p, req, HTTP_404_NOT_FOUND))
        ELSE IF NotAssigned(user, appointments[aid])
        THEN Return(p, Response(p, req, HTTP_403_FORBIDDEN))
        ELSE IF CommentBlank(comment)
        THEN Return(p, Response(p, req, HTTP_400_BAD_REQUEST))
        ELSE Goto(p, "comment_save", req,
                  [appointments[aid] EXCEPT !.kine_comment = Strip(comment),
                                            !.status = "completed"])
    /\ UNCHANGED <<appointments, availability, clock>>

\* Lines 334-340: read the clock, save(update_fields=[kine_comment, status,
\* comment_updated_at]).
CommentSave(p) ==
    /\ proc[p].pc = "comment_save"
    /\ appointments' = [appointments EXCEPT
                          ![proc[p].req.id].kine_comment = proc[p].obj.kine_comment,
                          ![proc[p].req.id].status = proc[p].obj.status,
                          ![proc[p].req.id].comment_updated_at = <<clock>>]
    /\ clock' = clock + 1
    /\ Return(p, Response(p, proc[p].req, HTTP_200_OK))
    /\ UNCHANGED availability

(***************************************************************************)
(* AvailabilityListCreateView.post                                         *)
(***************************************************************************)
WindowData == [day : WinDays, start_time : Times, end_time : Times]

\* AvailabilitySerializer.is_valid: the window is not empty.
WindowIsValid(data) == data.start_time < data.end_time

\* The row a registration inserts.
NewAvailability(kid, data) ==
    [kinesiologist |-> kid, day |-> data.day,
     start_time |-> data.start_time, end_time |-> data.end_time]

WindowResponse(code) == [op |-> "window", code |-> code]

\* Lines 60-106: superuser or the kinesiologist registers a window.
AvailabilityPost(p) ==
    /\ Free(p)
    /\ Len(availability) < MaxWindows
    /\ \E user \in Users, kid \in KineIds, data \in WindowData :
        IF kid \notin Kinesiologists
        THEN /\ Return(p, WindowResponse(HTTP_404_NOT_FOUND))
             /\ UNCHANGED availability
        ELSE IF ~(IsSuperuser(user) \/ user = KineUser[kid])
        THEN /\ Return(p, WindowResponse(HTTP_403_FORBIDDEN))
             /\ UNCHANGED availability
        ELSE IF ~WindowIsValid(data)
        THEN /\ Return(p, WindowResponse(HTTP_400_BAD_REQUEST))
             /\ UNCHANGED availability
        ELSE /\ availability' = Append(availability, NewAvailability(kid, data))
             /\ Return(p, WindowResponse(HTTP_201_CREATED))
    /\ UNCHANGED <<appointments, clock>>

(***************************************************************************)
(* KinesiologistAvailableSlotsView.get                                     *)
(***************************************************************************)
\* The query strings of ?date=: absent, empty, or the three numbers of
\* YYYY-MM-DD.
DateStrs == {None, <<>>, <<2024, 13, 1>>, <<2024, 1, 1>>, <<2024, 1, 2>>}

IsLeap(y) == y % 4 = 0 /\ (y % 100 # 0 \/ y % 400 = 0)

DaysInMonth(y, m) ==
    IF m = 2 THEN (IF IsLeap(y) THEN 29 ELSE 28)
    ELSE IF m \in {4, 6, 9, 11} THEN 30 ELSE 31

RECURSIVE DaysBeforeMonth(_, _)
DaysBeforeMonth(y, m) ==
    IF m = 1 THEN 0 ELSE DaysBeforeMonth(y, m - 1) + DaysInMonth(y, m - 1)

\* date.toordinal()
ToOrdinal(d) ==
    LET y == d[1] - 1 IN
    y * 365 + y \div 4 - y \div 100 + y \div 400 + DaysBeforeMonth(d[1], d[2]) + d[3]

\* date.weekday(): Monday is 0.
Weekday(d) == (ToOrdinal(d) + 6) % 7

DateParsesAnyNumbers(s) == Len(s) = 3

\* datetime.strptime(date_str, "%Y-%m-%d") succeeds.
DateParses(s) ==
    /\ Len(s) = 3
    /\ s[1] \in 1..9999
    /\ s[2] \in 1..12
    /\ s[3] \in 1..DaysInMonth(s[1], s[2])

\* Lines 191-194: the kinesiologist's windows of that week day, in the order
\* the table stores them (the query states no ordering).
AvailabilityQs(kid, day) ==
    SelectSeq(availability, LAMBDA w : w.kinesiologist = kid /\ w.day = day)

ExistingActiveAppointments(kid, date) ==
    {i \in DOMAIN appointments :
        /\ appointments[i].kinesiologist = kid /\ appointments[i].date = date
        /\ appointments[i].status \in {"requested", "confirmed"}}

\* Lines 199-202: the kinesiologist's appointments of that date, whatever
\* their status.
ExistingAppointments(kid, date) ==
    {i \in DOMAIN appointments :
        appointments[i].kinesiologist = kid /\ appointments[i].date = date}

SlotOverlapStartInside(existing, start, end) ==
    \E i \in existing :
        appointments[i].start_time >= start /\ appointments[i].start_time < end

\* Lines 214-217: an existing appointment intersects [start, end).
SlotOverlap(existing, start, end) ==
    \E i \in existing :
        appointments[i].start_time < end /\ appointments[i].end_time > start

SharedSlotList(last) == last

\* Line 205: the list a call collects its slots in; last is the list of the
\* call before.
NewSlotList(last) == <<>>

SlotFitsLoose(current_start, avail_end) == current_start < avail_end

SlotFitsStrict(current_start, avail_end) == current_start + SLOT_MINUTES < avail_end

\* Line 211: a slot from current_start ends inside the window.
SlotFits(current_start, avail_end) == current_start + SLOT_MINUTES <= avail_end

\* Lines 211-231: tile one window from current_start on.
RECURSIVE TileWindow(_, _, _, _, _)
TileWindow(slots, date, existing, current_start, avail_end) ==
    IF SlotFits(current_start, avail_end)
    THEN LET current_end == current_start + SLOT_MINUTES
             slot == [date |-> date, start_time |-> current_start,
                      end_time |-> current_end,
                      datetime |-> <<date, current_start>>]
         IN TileWindow(IF SlotOverlap(existing, current_start, current_end)
                       THEN slots ELSE Append(slots, slot),
                       date, existing, current_end, avail_end)
    ELSE slots

\* Lines 207-231: the windows one after the other.
RECURSIVE TileWindows(_, _, _, _)
TileWindows(slots, date, existing, windows) ==
    IF windows = <<>> THEN slots
    ELSE TileWindows(
            TileWindow(slots, date, existing,
                       Head(windows).start_time, Head(windows).end_time),
            date, existing, Tail(windows))

\* TimeSlotSerializer(slots, many=True).data
TimeSlotSerializer(slots) ==
    [i \in DOMAIN slots |->
        [date |-> slots[i].date, start_time |-> slots[i].start_time,
         end_time |-> slots[i].end_time]]

\* The answer of the view, and the tables it has queried to give it.
SlotsResponse(kid, date_str, code, body, reads) ==
    [op |-> "slots", id |-> kid, date |-> date_str, code |-> code,
     body |-> body, reads |-> reads]

\* Lines 173-234.  The client may ask again before it has read the last answer.
\* availability_qs.exists() of line 196 queries the windows; the appointments
\* are queried by the exists() of line 219, once per candidate slot.
ListSlots(p) ==
    /\ proc[p].pc = "idle"
    /\ \E kid \in KineIds, date_str \in DateStrs :
        IF date_str = None \/ date_str = <<>>
        THEN Return(p, SlotsResponse(kid, date_str, HTTP_400_BAD_REQUEST, <<>>, {}))
        ELSE IF ~DateParses(date_str)
        THEN Return(p, SlotsResponse(kid, date_str, HTTP_400_BAD_REQUEST, <<>>, {}))
        ELSE LET windows == AvailabilityQs(kid, Weekday(date_str))
                 last == IF resp[p].op = "slots" THEN resp[p].body ELSE <<>>
             IN
             IF windows = <<>>
             THEN Return(p, SlotsResponse(kid, date_str, HTTP_200_OK, <<>>,
                                          {"availability"}))
             ELSE Return(p, SlotsResponse(kid, date_str, HTTP_200_OK,
                     TimeSlotSerializer(
                         TileWindows(NewSlotList(last), date_str,
                                     ExistingAppointments(kid, date_str), windows)),
                     IF \E w \in DOMAIN windows :
                            SlotFits(windows[w].start_time, windows[w].end_time)
                     THEN {"availability", "appointments"}
                     ELSE {"availability"}))
    /\ UNCHANGED <<appointments, availability, clock>>

(***************************************************************************)
(* The service: any interleaving of the handlers' steps.                   *)
(***************************************************************************)
Init ==
    /\ appointments = <<>>
    /\ availability = <<>>
    /\ proc = [p \in Procs |-> IdleProc]
    /\ resp = [p \in Procs |-> NoResp]
    /\ clock = 1

Serial == {"w1"}

Next ==
    \E p \in Serial :
        \/ Deliver(p)
        \/ CreateBegin(p)
        \/ CreateClean(p)
        \/ CreateInsert(p)
        \/ StatusBegin(p)
        \/ StatusSave(p)
        \/ CommentBegin(p)
        \/ CommentSave(p)

Spec == Init /\ [][Next]_vars

(***************************************************************************)
(* Slot listing: windows are registered and slots are listed against a     *)
(* table of appointments that bookings and transitions have left.          *)
(***************************************************************************)
BookedTimes == {<<30, 60>>, <<45, 90>>}

BookedRows ==
    {[kinesiologist |-> k, patient_name |-> n, date |-> d,
      start_time |-> t[1], end_time |-> t[2], status |-> s,
      kine_comment |-> None, comment_updated_at |-> <<>>] :
        k \in Kinesiologists, n \in Patients, d \in Dates,
        t \in BookedTimes, s \in Statuses}

\* The initial tables: empty, or one row.
BookedTables == {<<>>} \cup {<<r>> : r \in BookedRows}

InitSlots ==
    /\ appointments \in BookedTables
    /\ availability = <<>>
    /\ proc = [p \in Procs |-> IdleProc]
    /\ resp = [p \in Procs |-> NoResp]
    /\ clock = 1

NextSlots ==
    \E p \in Serial :
        \/ Deliver(p)
        \/ AvailabilityPost(p)
        \/ ListSlots(p)

SlotSpec == InitSlots /\ [][NextSlots]_vars

(***************************************************************************)
(* Two bookings at once: each worker handles one booking request.          *)
(***************************************************************************)
NextRace ==
    \E p \in Procs :
        \/ CreateBegin(p)
        \/ CreateClean(p)
        \/ CreateInsert(p)

RaceSpec == Init /\ [][NextRace]_vars

(***************************************************************************)
(* Two transitions at once: an appointment has been booked, and each       *)
(* worker handles one status update or one comment.                        *)
(***************************************************************************)
FirstBooking ==
    [patient_name |-> 1, date |-> <<2024, 1, 1>>, start_time |-> 0, end_time |-> 45]

InitTransitions ==
    /\ appointments \in {<<NewAppointment(kid, FirstBooking)>> : kid \in Kinesiologists}
    /\ availability = <<>>
    /\ proc = [p \in Procs |-> IdleProc]
    /\ resp = [p \in Procs |-> NoResp]
    /\ clock = 1

NextTransitions ==
    \E p \in Procs :
        \/ StatusBegin(p)
        \/ StatusSave(p)
        \/ CommentBegin(p)
        \/ CommentSave(p)

TransitionSpec == InitTransitions /\ [][NextTransitions]_vars

(***************************************************************************)
(* Properties.                                                             *)
(***************************************************************************)
Terminal == {"cancelled", "completed"}
Active == {"requested", "confirmed"}

\* The user is the kinesiologist of the appointment.
IsKinesiologistOf(user, appointment) == user = KineUser[appointment.kinesiologist]

\* Worker p returns a response of operation op in this step.
Returns(p, op) == resp[p] = NoResp /\ resp'[p].op = op

\* The booking request r is well formed and its caller may book.
GoodBooking(r) ==
    /\ r.id \in Kinesiologists
    /\ SerializerIsValid(r.data)
    /\ IsAuthorized(r.user, r.data.patient_name, r.id)

\* The caller of the booking request r is neither a superuser, nor the
\* kinesiologist of the request, nor the patient it names.
OtherCaller(r) ==
    /\ ~IsSuperuser(r.user)
    /\ r.id \in Kinesiologists => r.user # KineUser[r.id]
    /\ "patient_name" \in DOMAIN r.data => r.user # PatientUser[r.data.patient_name]

\* C1: for every kinesiologist and date, no two appointments whose status is
\* requested or confirmed have intersecting [start_time, end_time) intervals.
C1_NoActiveOverlap ==
    \A i, j \in DOMAIN appointments :
        (/\ i # j
         /\ appointments[i].kinesiologist = appointments[j].kinesiologist
         /\ appointments[i].date = appointments[j].date
         /\ appointments[i].status \in Active
         /\ appointments[j].status \in Active)
        => ~Overlaps(appointments[i].start_time, appointments[i].end_time,
                     appointments[j].start_time, appointments[j].end_time)

\* Two workers have answered two good bookings of the same kinesiologist, date
\* and interval, and one request was in progress when the other returned.
SameBookingAtOnce(p, q) ==
    /\ p # q
    /\ resp[p].op = "create" /\ resp[q].op = "create"
    /\ GoodBooking(resp[p]) /\ GoodBooking(resp[q])
    /\ resp[p].id = resp[q].id
    /\ resp[p].data.date = resp[q].data.date
    /\ resp[p].data.start_time = resp[q].data.start_time
    /\ resp[p].data.end_time = resp[q].data.end_time
    /\ q \in resp[p].peers

\* The rows that record the booking request r.
RowsOf(r) ==
    {i \in DOMAIN appointments :
        /\ appointments[i].kinesiologist = r.id
        /\ appointments[i].date = r.data.date
        /\ appointments[i].start_time = r.data.start_time
        /\ appointments[i].end_time = r.data.end_time}

\* C2 as claimed: of two concurrent good bookings of the same kinesiologist,
\* date and interval, one returns 201 and the other 500 (the conflict error),
\* and one row is stored.
C2_LoserGetsConflictError ==
    \A p, q \in Procs :
        SameBookingAtOnce(p, q) =>
            /\ {resp[p].code, resp[q].code} =
                   {HTTP_201_CREATED, HTTP_500_INTERNAL_SERVER_ERROR}
            /\ Cardinality(RowsOf(resp[p])) = 1

\* C2 as amended: of two concurrent good bookings of the same kinesiologist,
\* date and interval, one returns 201, the other returns 400 (its validation
\* saw the winner's row) or 500 (the insert met the uniqueness constraint),
\* and one row is stored.
C2_OneBookingWins ==
    \A p, q \in Procs :
        SameBookingAtOnce(p, q) =>
            /\ \/ /\ resp[p].code = HTTP_201_CREATED
                  /\ resp[q].code \in {HTTP_400_BAD_REQUEST,
                                       HTTP_500_INTERNAL_SERVER_ERROR}
               \/ /\ resp[q].code = HTTP_201_CREATED
                  /\ resp[p].code \in {HTTP_400_BAD_REQUEST,
                                       HTTP_500_INTERNAL_SERVER_ERROR}
            /\ Cardinality(RowsOf(resp[p])) = 1

\* Both outcomes of the loser are seen.
C2_Witness ==
    \E p, q \in Procs :
        /\ SameBookingAtOnce(p, q)
        /\ resp[p].code = HTTP_201_CREATED
        /\ resp[q].code = HTTP_500_INTERNAL_SERVER_ERROR

\* The status request of worker p, answered in this step, comes from the
\* appointment's kinesiologist and asks for confirmed or cancelled.
GoodStatusCall(p) ==
    /\ Returns(p, "status")
    /\ resp'[p].id \in DOMAIN appointments
    /\ IsKinesiologistOf(resp'[p].user, appointments[resp'[p].id])
    /\ StatusAllowed(resp'[p].data)

\* The comment request of worker p, answered in this step, comes from the
\* appointment's kinesiologist and carries a comment that is not blank.
GoodCommentCall(p) ==
    /\ Returns(p, "comment")
    /\ resp'[p].id \in DOMAIN appointments
    /\ IsKinesiologistOf(resp'[p].user, appointments[resp'[p].id])
    /\ ~CommentBlank(Get(resp'[p].data, "kine_comment"))

\* C3: a status update by the assigned kinesiologist to confirmed or cancelled,
\* on an appointment that is cancelled or completed, returns 400 and leaves the
\* appointment table as it was.
C3_TerminalStatusRejected ==
    [][\A p \in Procs :
        (GoodStatusCall(p) /\ appointments[resp'[p].id].status \in Terminal)
        => (resp'[p].code = HTTP_400_BAD_REQUEST /\ appointments' = appointments)
      ]_vars

\* C4: a comment that is not blank, submitted by the assigned kinesiologist on
\* an appointment that is cancelled or completed, returns 400 and leaves the
\* appointment table as it was.
C4_TerminalCommentRejected ==
    [][\A p \in Procs :
        (GoodCommentCall(p) /\ appointments[resp'[p].id].status \in Terminal)
        => (resp'[p].code = HTTP_400_BAD_REQUEST /\ appointments' = appointments)
      ]_vars

\* C9: a status update or a comment by a caller who is not the appointment's
\* kinesiologist returns 403, whatever it carries and whatever the
\* appointment's status, and leaves the appointment table as it was.
C9_AuthorizationFirst ==
    [][\A p \in Procs :
        (/\ Returns(p, "status") \/ Returns(p, "comment")
         /\ resp'[p].id \in DOMAIN appointments
         /\ ~IsKinesiologistOf(resp'[p].user, appointments[resp'[p].id]))
        => (resp'[p].code = HTTP_403_FORBIDDEN /\ appointments' = appointments)
      ]_vars

\* A blank comment on a terminal appointment, and a status outside the accepted
\* ones, both from a superuser, have been answered 403.
C9_Witness ==
    \E p \in Procs :
        /\ resp[p].op = "comment"
        /\ resp[p].code = HTTP_403_FORBIDDEN
        /\ IsSuperuser(resp[p].user)
        /\ CommentBlank(Get(resp[p].data, "kine_comment"))
        /\ appointments[resp[p].id].status \in Terminal

\* C10 as claimed: a booking with a kinesiologist, by a caller who is neither
\* the patient named, nor that kinesiologist, nor a superuser, returns 403 and
\* stores nothing.
C10_OtherCallerForbidden ==
    [][\A p \in Procs :
        (/\ Returns(p, "create")
         /\ resp'[p].id \in Kinesiologists
         /\ OtherCaller(resp'[p]))
        => (resp'[p].code = HTTP_403_FORBIDDEN /\ appointments' = appointments)
      ]_vars

\* C10 as amended: a booking by such a caller stores nothing and never returns
\* 201; it returns 403 when the kinesiologist exists and the request passes
\* the serializer, 404 or 400 otherwise, the lookup and the serializer running
\* before the authorization.
C10_OtherCallerNeverBooks ==
    [][\A p \in Procs :
        (Returns(p, "create") /\ OtherCaller(resp'[p]))
        => /\ appointments' = appointments
           /\ resp'[p].code =
                IF resp'[p].id \notin Kinesiologists THEN HTTP_404_NOT_FOUND
                ELSE IF ~SerializerIsValid(resp'[p].data) THEN HTTP_400_BAD_REQUEST
                ELSE HTTP_403_FORBIDDEN
      ]_vars

\* A well formed booking of a known kinesiologist by another caller has been
\* answered 403.
C10_Witness ==
    \E p \in Procs :
        /\ resp[p].op = "create"
        /\ OtherCaller(resp[p])
        /\ resp[p].id \in Kinesiologists
        /\ SerializerIsValid(resp[p].data)
        /\ resp[p].code = HTTP_403_FORBIDDEN

\* The slots answered to worker p.
Listed(p) == resp[p].op = "slots" /\ resp[p].code = HTTP_200_OK

\* The rows of the kinesiologist and date of the answer to worker p.
RowsListed(p) ==
    {i \in DOMAIN appointments :
        /\ appointments[i].kinesiologist = resp[p].id
        /\ appointments[i].date = resp[p].date}

\* C5: no slot listed for a kinesiologist and date intersects an appointment of
\* that kinesiologist and date whose status is requested or confirmed.
C5_SlotsAvoidActiveAppointments ==
    \A p \in Procs :
        Listed(p) =>
            \A k \in DOMAIN resp[p].body, i \in RowsListed(p) :
                appointments[i].status \in Active =>
                    ~Overlaps(resp[p].body[k].start_time, resp[p].body[k].end_time,
                              appointments[i].start_time, appointments[i].end_time)

\* A listed slot ends where an active appointment of that day starts.
C5_Witness ==
    \E p \in Procs :
        /\ Listed(p)
        /\ \E k \in DOMAIN resp[p].body, i \in RowsListed(p) :
            /\ appointments[i].status \in Active
            /\ resp[p].body[k].end_time = appointments[i].start_time

\* C6: every slot listed lasts SLOT_MINUTES and lies inside a window of that
\* kinesiologist whose day is the week day of the date asked.
C6_SlotsInsideWindows ==
    \A p \in Procs :
        Listed(p) =>
            \A k \in DOMAIN resp[p].body :
                /\ resp[p].body[k].end_time - resp[p].body[k].start_time = 45
                /\ \E w \in DOMAIN availability :
                    /\ availability[w].kinesiologist = resp[p].id
                    /\ availability[w].day = Weekday(resp[p].date)
                    /\ availability[w].start_time <= resp[p].body[k].start_time
                    /\ resp[p].body[k].end_time <= availability[w].end_time

\* Two slots of one window are listed, the window leaving a remainder.
C6_Witness ==
    \E p \in Procs :
        /\ Listed(p)
        /\ Len(resp[p].body) = 2
        /\ Len(availability) = 1
        /\ availability[1].end_time - availability[1].start_time = 105

\* The windows of the answer to worker p: no two of them intersect.
WindowsDisjoint(p) ==
    \A v, w \in DOMAIN availability :
        (/\ v # w
         /\ availability[v].kinesiologist = resp[p].id
         /\ availability[w].kinesiologist = resp[p].id
         /\ availability[v].day = Weekday(resp[p].date)
         /\ availability[w].day = Weekday(resp[p].date))
        => ~Overlaps(availability[v].start_time, availability[v].end_time,
                     availability[w].start_time, availability[w].end_time)

\* C7: the start times of the slots listed never decrease along the list,
\* also when several windows match the day (read in the claim's favour: the
\* windows do not intersect).
C7_SlotsChronological ==
    \A p \in Procs :
        (Listed(p) /\ WindowsDisjoint(p)) =>
            \A k \in 1..(Len(resp[p].body) - 1) :
                resp[p].body[k].start_time <= resp[p].body[k + 1].start_time

SavesAfter(p, q) ==
    /\ p # q
    /\ proc[p].pc \in {"status_save", "comment_save"}
    /\ proc'[p].pc = "idle"
    /\ resp[q].op \in {"status", "comment"}
    /\ resp[q].code = HTTP_200_OK
    /\ resp[q].id = proc[p].req.id
    /\ p \in resp[q].peers

\* C11: a transition that read the appointment before a concurrent transition
\* made it cancelled or completed does not commit: the terminal status, once
\* written, is not overwritten.
C11_TerminalNotOverwritten ==
    [][\A p, q \in Procs :
        (SavesAfter(p, q) /\ appointments[proc[p].req.id].status \in Terminal)
        => appointments'[proc[p].req.id].status = appointments[proc[p].req.id].status
      ]_vars

\* The windows of the kinesiologist and week day of the answer to worker p.
MatchingWindows(p) ==
    {w \in DOMAIN availability :
        /\ availability[w].kinesiologist = resp[p].id
        /\ availability[w].day = Weekday(resp[p].date)}

\* C12: with no appointment of the kinesiologist on the date and one matching
\* window [s, e), the slots listed are exactly [s + k*d, s + (k+1)*d) for
\* k = 0 .. (e - s) \div d - 1, d being SLOT_MINUTES: a remainder shorter than
\* d is dropped.
C12_SingleWindowTiling ==
    \A p \in Procs :
        (Listed(p) /\ RowsListed(p) = {} /\ Cardinality(MatchingWindows(p)) = 1) =>
            LET w == CHOOSE w \in MatchingWindows(p) : TRUE
                s == availability[w].start_time
                e == availability[w].end_time
                n == (e - s) \div SLOT_MINUTES
            IN resp[p].body =
                [k \in 1..n |->
                    [date |-> resp[p].date,
                     start_time |-> s + (k - 1) * SLOT_MINUTES,
                     end_time |-> s + k * SLOT_MINUTES]]

\* A window of 105 minutes, nothing booked: two slots, the last 15 minutes
\* dropped.
C12_Witness ==
    \E p \in Procs :
        /\ Listed(p) /\ RowsListed(p) = {}
        /\ Cardinality(MatchingWindows(p)) = 1
        /\ \E w \in MatchingWindows(p) :
            /\ availability[w].start_time = 0 /\ availability[w].end_time = 105
        /\ Len(resp[p].body) = 2
        /\ resp[p].body[2].end_time = 90

\* The text t is present and holds a character that is not a space.
HasText(t) == t # None /\ \E k \in DOMAIN t : t[k] # " "

\* C13: after every step, an appointment that is completed has a comment that
\* is not blank and a comment timestamp; and an appointment becomes completed
\* only in a step that answers 200 to a comment, not blank, of the
\* appointment's kinesiologist, the step that writes comment and timestamp.
C13_CompletedHasComment ==
    [][\A i \in DOMAIN appointments' :
        appointments'[i].status = "completed" =>
            /\ HasText(appointments'[i].kine_comment)
            /\ appointments'[i].comment_updated_at # <<>>
            /\ (i \notin DOMAIN appointments \/ appointments[i].status # "completed") =>
                \E p \in Procs :
                    /\ Returns(p, "comment")
                    /\ resp'[p].id = i
                    /\ resp'[p].code = HTTP_200_OK
                    /\ IsKinesiologistOf(resp'[p].user, appointments'[i])
                    /\ HasText(Get(resp'[p].data, "kine_comment"))
                    /\ appointments'[i].kine_comment =
                           Strip(Get(resp'[p].data, "kine_comment"))
                    /\ appointments'[i].comment_updated_at #
                           appointments[i].comment_updated_at
      ]_vars

\* A comment with a leading space has completed an appointment, and its text
\* is stored without the space.
C13_Witness ==
    \E p \in Procs :
        /\ resp[p].op = "comment"
        /\ resp[p].code = HTTP_200_OK
        /\ Get(resp[p].data, "kine_comment") = <<" ", "a">>
        /\ appointments[resp[p].id].status = "completed"
        /\ appointments[resp[p].id].kine_comment = <<"a">>
        /\ appointments[resp[p].id].comment_updated_at # <<>>

\* C14: a comment that is missing, empty or made of spaces only, submitted by
\* the appointment's kinesiologist, returns 400 and leaves the appointment's
\* status, comment and comment timestamp, and every other row, as they were.
C14_BlankCommentRejected ==
    [][\A p \in Procs :
        (/\ Returns(p, "comment")
         /\ resp'[p].id \in DOMAIN appointments
         /\ IsKinesiologistOf(resp'[p].user, appointments[resp'[p].id])
         /\ ~HasText(Get(resp'[p].data, "kine_comment")))
        => (resp'[p].code = HTTP_400_BAD_REQUEST /\ appointments' = appointments)
      ]_vars

\* The kinesiologist's comment of two spaces on a confirmed appointment has
\* been answered 400.
C14_Witness ==
    \E p \in Procs :
        /\ resp[p].op = "comment"
        /\ resp[p].code = HTTP_400_BAD_REQUEST
        /\ resp[p].id \in DOMAIN appointments
        /\ IsKinesiologistOf(resp[p].user, appointments[resp[p].id])
        /\ Get(resp[p].data, "kine_comment") = <<" ", " ">>
        /\ appointments[resp[p].id].status = "confirmed"

\* The status request r asks for confirmed or for cancelled.
AsksConfirmedOrCancelled(r) ==
    "status" \in DOMAIN r.data /\ (r.data.status = "confirmed" \/ r.data.status = "cancelled")

\* C15: a status update by the appointment's kinesiologist that asks for
\* anything but confirmed or cancelled (completed, requested, or no status at
\* all) returns 400 and leaves the appointment table as it was.
C15_OtherStatusRejected ==
    [][\A p \in Procs :
        (/\ Returns(p, "status")
         /\ resp'[p].id \in DOMAIN appointments
         /\ IsKinesiologistOf(resp'[p].user, appointments[resp'[p].id])
         /\ ~AsksConfirmedOrCancelled(resp'[p]))
        => (resp'[p].code = HTTP_400_BAD_REQUEST /\ appointments' = appointments)
      ]_vars

\* The kinesiologist's request for completed has been answered 400.
C15_Witness ==
    \E p \in Procs :
        /\ resp[p].op = "status"
        /\ resp[p].code = HTTP_400_BAD_REQUEST
        /\ resp[p].id \in DOMAIN appointments
        /\ IsKinesiologistOf(resp[p].user, appointments[resp[p].id])
        /\ "status" \in DOMAIN resp[p].data
        /\ resp[p].data.status = "completed"

\* C16: every row a booking adds to the appointment table has status
\* requested when it is added, also when the request carries a status, and
\* rows are added only by a booking answered 201.
C16_CreatedAsRequested ==
    [][\A i \in DOMAIN appointments' \ DOMAIN appointments :
        /\ appointments'[i].status = "requested"
        /\ \E p \in Procs :
            /\ Returns(p, "create")
            /\ resp'[p].code = HTTP_201_CREATED
            /\ appointments'[i].kinesiologist = resp'[p].id
            /\ appointments'[i].date = resp'[p].data.date
            /\ appointments'[i].start_time = resp'[p].data.start_time
            /\ appointments'[i].end_time = resp'[p].data.end_time
      ]_vars

\* A booking that carried a status has been answered 201 and its row is
\* requested.
C16_Witness ==
    \E p \in Procs :
        /\ resp[p].op = "create"
        /\ resp[p].code = HTTP_201_CREATED
        /\ "status" \in DOMAIN resp[p].data
        /\ \E i \in RowsOf(resp[p]) : appointments[i].status = "requested"

\* C17: no slot listed for a kinesiologist and date intersects an appointment
\* of that kinesiologist and date that is cancelled or completed: the interval
\* of a cancelled appointment does not come back into the list.
C17_SlotsAvoidTerminalAppointments ==
    \A p \in Procs :
        Listed(p) =>
            \A i \in RowsListed(p) :
                appointments[i].status \in Terminal =>
                    \A k \in DOMAIN resp[p].body :
                        \/ resp[p].body[k].end_time <= appointments[i].start_time
                        \/ appointments[i].end_time <= resp[p].body[k].start_time

\* A window of the day covers a cancelled appointment, and no slot is listed.
C17_Witness ==
    \E p \in Procs :
        /\ Listed(p)
        /\ resp[p].body = <<>>
        /\ \E i \in RowsListed(p), w \in MatchingWindows(p) :
            /\ appointments[i].status = "cancelled"
            /\ availability[w].start_time <= appointments[i].start_time
            /\ appointments[i].end_time <= availability[w].end_time

\* C18: a listing whose date is missing or does not parse returns 400 and has
\* queried neither the windows nor the appointments; a listing whose date
\* parses, for a kinesiologist with no window on that week day, returns 200
\* with the empty list and has not queried the appointments.
C18_DateCheckedFirst ==
    \A p \in Procs :
        resp[p].op = "slots" =>
            IF resp[p].date \notin Dates
            THEN resp[p].code = HTTP_400_BAD_REQUEST /\ resp[p].reads = {}
            ELSE MatchingWindows(p) = {} =>
                    /\ resp[p].code = HTTP_200_OK
                    /\ resp[p].body = <<>>
                    /\ "appointments" \notin resp[p].reads

\* A date of month 13 has been answered 400 for a kinesiologist who has a
\* window and an appointment.
C18_Witness ==
    \E p \in Procs :
        /\ resp[p].op = "slots"
        /\ resp[p].date = <<2024, 13, 1>>
        /\ resp[p].code = HTTP_400_BAD_REQUEST
        /\ \E w \in DOMAIN availability : availability[w].kinesiologist = resp[p].id
        /\ \E i \in DOMAIN appointments : appointments[i].kinesiologist = resp[p].id

\* C19: a status update answered 200 changes the status of its appointment
\* and nothing else: the appointment's comment, comment timestamp,
\* kinesiologist, patient, date, start and end time, every other appointment
\* and the windows are as they were before the write.
C19_StatusOnly ==
    [][\A p \in Procs :
        (Returns(p, "status") /\ resp'[p].code = HTTP_200_OK) =>
            /\ appointments' =
                   [appointments EXCEPT ![resp'[p].id].status = resp'[p].data.status]
            /\ availability' = availability
      ]_vars

\* A status update has been answered 200 on an appointment that carries a
\* comment, and the comment is still there.
C19_Witness ==
    \E p \in Procs :
        /\ resp[p].op = "status"
        /\ resp[p].code = HTTP_200_OK
        /\ appointments[resp[p].id].status = resp[p].data.status
        /\ appointments[resp[p].id].kine_comment = <<"a">>
        /\ appointments[resp[p].id].comment_updated_at # <<>>

\* C20: no step sets the status of an existing appointment to requested: an
\* appointment that is requested after a step was requested before it, so an
\* appointment that has left requested does not return to it.
C20_NeverBackToRequested ==
    [][\A i \in DOMAIN appointments :
        appointments'[i].status = "requested" => appointments[i].status = "requested"
      ]_vars

\* The kinesiologist has asked for requested on an appointment that had left
\* it, and has been answered 400.
C20_Witness ==
    \E p \in Procs :
        /\ resp[p].op = "status"
        /\ "status" \in DOMAIN resp[p].data
        /\ resp[p].data.status = "requested"
        /\ resp[p].id \in DOMAIN appointments
        /\ IsKinesiologistOf(resp[p].user, appointments[resp[p].id])
        /\ appointments[resp[p].id].status = "confirmed"
        /\ resp[p].code = HTTP_400_BAD_REQUEST

====
